---- MODULE Spec2Model ----
(***************************************************************************)
(* Model of custom-tools/brute-forcing/bruteforce.py: class BruteForcer.   *)
(* run() submits one work item per candidate of password_list to a thread  *)
(* pool; every work item executes try_password(candidate).  The state is   *)
(* indexed by work item: the pool's threads are interchangeable, a thread  *)
(* is busy from the moment it takes an item off the pool's queue until     *)
(* try_password has returned.  Every access to self.found_password,        *)
(* self.correct_password and self.lock is a step of its own.               *)
(*                                                                         *)
(* The module also models the construction of password_list (ListSpec) and *)
(* machanger.py, one invocation of main() per step (MacSpec).  Each        *)
(* specification leaves the variables of the other programs untouched.     *)
(***************************************************************************)
EXTENDS Naturals, Integers, Sequences, FiniteSets, TLC

\* Number of candidates in password_list (26000 in the source, reduced).
NumCandidates == 3

\* ThreadPoolExecutor(max_workers=10) in the source; the model is parametric
\* in the pool width and is checked at a reduced width.
max_workers == 2

\* password_list, by position: candidate c is password_list[c-1].
password_list == 1..NumCandidates

\* self.correct_password = None
NoPassword == 0

\* The holder of self.lock when no thread holds it.
NoHolder == 0

\* What requests.post does for one candidate: a response without "Invalid",
\* a response with "Invalid", or an exception.
Outcomes == {"Success", "Rejected", "Fault"}

VARIABLES
    oracle,            \* candidate -> outcome of requests.post for it
    found_password,    \* self.found_password
    correct_password,  \* self.correct_password
    lock,              \* holder of self.lock (a work item) or NoHolder
    mainpc,            \* position of run()
    submitted,         \* number of executor.submit calls made so far
    taken,             \* number of work items taken off the pool's queue
    cancelIdx,         \* position of the loop "for f in futures: f.cancel()"
    yielded,           \* number of futures as_completed has yielded so far
    fstate,            \* state of each future
    pc,                \* position of each work item in try_password
    result,            \* return value of try_password per work item
    out,               \* lines printed, in order
    calls,             \* history: requests.post invocations per candidate
    writes,            \* history: number of writes to correct_password
    lateCalls,         \* history: candidates whose requests.post began after the claim
    firstIn            \* history: the first work item to enter the block of line 34

\* machanger.py: the interface, the files under ~/.machanger and the latest
\* run, as one record
VARIABLE machine

\* bruteforce.py line 11: the list comprehension building password_list, as
\* one record
VARIABLE listing

\* the MAC address ifconfig reports for the interface
iface_mac == machine.iface_mac
\* content of ~/.machanger/<interface>.mac
savefile == machine.savefile
\* entries of ~/.machanger/history.json for the interface
history == machine.history
\* lines of ~/.machanger/machanger.log
logfile == machine.logfile
\* content of ~/.machanger/profiles/<name>.json
profile == machine.profile
\* number of invocations of main() so far
ops == machine.ops
\* history: what the invocations of main() did
last == machine.last

\* the entries appended so far
plist == listing.plist
\* current value of num in range(1000)
num == listing.num
\* position of char in string.ascii_uppercase
chr == listing.chr

macvars == <<machine>>
listvars == <<listing>>

vars == <<oracle, found_password, correct_password, lock, mainpc, submitted,
          taken, cancelIdx, yielded, fstate, pc, result, out, calls, writes,
          lateCalls, firstIn, macvars, listvars>>

\* What no step of run() or try_password changes.
fixed == <<oracle, macvars, listvars>>

shared == <<found_password, correct_password>>
mainvars == <<mainpc, submitted, cancelIdx, yielded>>
histvars == <<calls, writes, lateCalls, firstIn>>

\* Positions of a work item at which a pool thread is executing it.
ActivePcs == {"taken", "l26", "l31", "inflight", "l34", "l36", "l37", "l38",
              "l39", "l35exit", "l21", "l23"}

Active == {c \in password_list : pc[c] \in ActivePcs}

InFlight == {c \in password_list : pc[c] = "inflight"}

\* Mutation: the pool never limits the number of threads.
SlotFree_Unbounded == TRUE

\* A pool thread is free (or can still be spawned) to take the next item.
SlotFree == Cardinality(Active) < max_workers

\* Mutation: the with blocks do not exclude each other.
CanAcquire_NoExclusion == TRUE

\* threading.Lock.acquire: blocks while another thread holds the lock.
CanAcquire == lock = NoHolder

\* No file of that name exists.
NoFile == "nofile"

\* The MAC address the interface has before machanger is first used.
FactoryMac == "aa"

\* What `last` holds before the first invocation of main().
NoRun == [dry_run |-> FALSE, asked |-> FALSE, called |-> {}, hw |-> FALSE,
          done |-> FALSE, prevMac |-> FactoryMac, prevSave |-> NoFile,
          firstOld |-> NoFile, forced |-> FALSE]

\* machanger.py has not been run.
MacIdle ==
    machine = [iface_mac |-> FactoryMac, savefile |-> NoFile, history |-> <<>>,
               logfile |-> <<>>, profile |-> NoFile, ops |-> 0, last |-> NoRun]

\* The list comprehension of line 11 has not produced an entry.
ListIdle == listing = [plist |-> <<>>, num |-> 0, chr |-> 1]

\* BruteForcer.__init__ (lines 15-17) followed by the entry into run().
RunEntry ==
    /\ found_password = FALSE
    /\ correct_password = NoPassword
    /\ lock = NoHolder
    /\ mainpc = "submit"
    /\ submitted = 0
    /\ taken = 0
    /\ cancelIdx = 1
    /\ yielded = 0
    /\ fstate = [c \in password_list |-> "NONE"]
    /\ pc = [c \in password_list |-> "none"]
    /\ result = [c \in password_list |-> "none"]
    /\ out = <<>>
    /\ calls = [c \in password_list |-> 0]
    /\ writes = 0
    /\ lateCalls = {}
    /\ firstIn = NoHolder

\* bruteforce.py is not running.
BfIdle ==
    /\ oracle = [c \in password_list |-> "Rejected"]
    /\ RunEntry

\* bruteforcer = BruteForcer(); bruteforcer.run() (lines 59-60), for any
\* behaviour of the server.
Init ==
    /\ oracle \in [password_list -> Outcomes]
    /\ RunEntry
    /\ MacIdle
    /\ ListIdle

(***************************************************************************)
(* run(): the scheduler thread                                             *)
(***************************************************************************)

\* line 48: executor.submit(self.try_password, password), one per candidate;
\* after the last one the for loop of line 50 is entered
Submit ==
    /\ mainpc = "submit"
    /\ submitted < NumCandidates
    /\ submitted' = submitted + 1
    /\ fstate' = [fstate EXCEPT ![submitted + 1] = "PENDING"]
    /\ pc' = [pc EXCEPT ![submitted + 1] = "queued"]
    /\ mainpc' = IF submitted + 1 = NumCandidates THEN "as_completed" ELSE "submit"
    /\ UNCHANGED <<fixed, shared, lock, taken, cancelIdx, yielded,
                   result, out, histvars>>

\* Futures whose try_password has returned.
Finished == {c \in password_list : fstate[c] = "FINISHED"}

\* lines 50-51: as_completed yields a finished future it has not yielded
\* yet (the body does not use it), the body reads self.found_password
\* (without the lock)
Observe ==
    /\ mainpc = "as_completed"
    /\ yielded < Cardinality(Finished)
    /\ yielded' = yielded + 1
    /\ mainpc' = IF found_password THEN "cancel" ELSE "as_completed"
    /\ UNCHANGED <<fixed, shared, lock, submitted, taken, cancelIdx,
                   fstate, pc, result, out, histvars>>

\* line 50: as_completed is exhausted, the for loop ends without a break
LoopEnd ==
    /\ mainpc = "as_completed"
    /\ yielded = NumCandidates
    /\ mainpc' = "shutdown"
    /\ UNCHANGED <<fixed, shared, lock, submitted, taken, cancelIdx, yielded,
                   fstate, pc, result, out, histvars>>

\* Mutation: f.cancel() has no effect.
CancelOne_Noop ==
    /\ mainpc = "cancel"
    /\ cancelIdx <= NumCandidates
    /\ cancelIdx' = cancelIdx + 1
    /\ UNCHANGED <<fixed, shared, lock, mainpc, submitted, taken, yielded,
                   fstate, pc, result, out, histvars>>

\* lines 52-53: f.cancel() for one future; only a PENDING future is cancelled
CancelOne ==
    /\ mainpc = "cancel"
    /\ cancelIdx <= NumCandidates
    /\ fstate' = [fstate EXCEPT ![cancelIdx] =
                     IF @ = "PENDING" THEN "CANCELLED" ELSE @]
    /\ cancelIdx' = cancelIdx + 1
    /\ UNCHANGED <<fixed, shared, lock, mainpc, submitted, taken, yielded,
                   pc, result, out, histvars>>

\* line 54: break
Break ==
    /\ mainpc = "cancel"
    /\ cancelIdx > NumCandidates
    /\ mainpc' = "shutdown"
    /\ UNCHANGED <<fixed, shared, lock, submitted, taken, cancelIdx, yielded,
                   fstate, pc, result, out, histvars>>

\* line 56: executor.shutdown(wait=False) returns at once
Shutdown ==
    /\ mainpc = "shutdown"
    /\ mainpc' = "exit"
    /\ UNCHANGED <<fixed, shared, lock, submitted, taken, cancelIdx, yielded,
                   fstate, pc, result, out, histvars>>

\* Mutation: leaving the with block does not wait for the pool's threads.
Exit_NoWait ==
    /\ mainpc = "exit"
    /\ mainpc' = "done"
    /\ UNCHANGED <<fixed, shared, lock, submitted, taken, cancelIdx, yielded,
                   fstate, pc, result, out, histvars>>

\* line 47: leaving the with block is executor.shutdown(wait=True): it joins
\* the pool's threads, which end when the queue is drained
Exit ==
    /\ mainpc = "exit"
    /\ taken = NumCandidates
    /\ Active = {}
    /\ mainpc' = "done"
    /\ UNCHANGED <<fixed, shared, lock, submitted, taken, cancelIdx, yielded,
                   fstate, pc, result, out, histvars>>

(***************************************************************************)
(* The pool's threads                                                      *)
(***************************************************************************)

\* A pool thread takes the next work item off the queue (FIFO).
Take(c) ==
    /\ c = taken + 1
    /\ c <= submitted
    /\ pc[c] = "queued"
    /\ SlotFree
    /\ taken' = c
    /\ pc' = [pc EXCEPT ![c] = "taken"]
    /\ UNCHANGED <<fixed, shared, lock, mainvars, fstate, result, out,
                   histvars>>

\* The thread starts the item unless its future was cancelled meanwhile.
Start(c) ==
    /\ pc[c] = "taken"
    /\ IF fstate[c] = "CANCELLED"
       THEN /\ pc' = [pc EXCEPT ![c] = "dropped"]
            /\ UNCHANGED fstate
       ELSE /\ pc' = [pc EXCEPT ![c] = "l26"]
            /\ fstate' = [fstate EXCEPT ![c] = "RUNNING"]
    /\ UNCHANGED <<fixed, shared, lock, mainvars, taken, result, out,
                   histvars>>

(***************************************************************************)
(* try_password(password), for the work item of candidate c                *)
(***************************************************************************)

\* Mutation: the pre-check is inverted (if not self.found_password).
PreCheckSkips_Inverted == ~found_password

\* Mutation: the pre-check is missing.
PreCheckSkips_Never == FALSE

\* line 26: the pre-check reads self.found_password without the lock
PreCheckSkips == found_password

\* lines 26-27: if self.found_password: return False
PreCheck(c) ==
    /\ pc[c] = "l26"
    /\ IF PreCheckSkips
       THEN /\ pc' = [pc EXCEPT ![c] = "done"]
            /\ fstate' = [fstate EXCEPT ![c] = "FINISHED"]
            /\ result' = [result EXCEPT ![c] = "False"]
       ELSE /\ pc' = [pc EXCEPT ![c] = "l31"]
            /\ UNCHANGED <<fstate, result>>
    /\ UNCHANGED <<fixed, shared, lock, mainvars, taken, out, histvars>>

\* line 31: requests.post(url, data=data) is sent
Post(c) ==
    /\ pc[c] = "l31"
    /\ pc' = [pc EXCEPT ![c] = "inflight"]
    /\ calls' = [calls EXCEPT ![c] = @ + 1]
    /\ lateCalls' = IF found_password THEN lateCalls \cup {c} ELSE lateCalls
    /\ UNCHANGED <<fixed, shared, lock, mainvars, taken, fstate, result, out,
                   writes, firstIn>>

\* Mutation: the test of line 33 is inverted ("Invalid" in response.text).
IsSuccess_Inverted(c) == oracle[c] = "Rejected"

\* line 33: "Invalid" not in response.text
IsSuccess(c) == oracle[c] = "Success"

\* lines 31-33, 40, 42: requests.post returns or raises; the branch taken
Response(c) ==
    /\ pc[c] = "inflight"
    /\ pc' = [pc EXCEPT ![c] = IF IsSuccess(c) THEN "l34" ELSE "l21"]
    /\ UNCHANGED <<fixed, shared, lock, mainvars, taken, fstate, result, out,
                   histvars>>

\* Mutation: line 35 is missing, every Success outcome claims.
ClaimWins_Unchecked == TRUE

\* line 35: not self.found_password, read under the lock
ClaimWins == ~found_password

\* lines 34-35: with self.lock: if not self.found_password.  The test is
\* made by the holder of the lock, and found_password is only written by
\* the holder of the lock: it reads the value found_password has when the
\* lock is acquired.
ClaimAcquire(c) ==
    /\ pc[c] = "l34"
    /\ CanAcquire
    /\ lock' = c
    /\ pc' = [pc EXCEPT ![c] = IF ClaimWins THEN "l36" ELSE "l35exit"]
    /\ firstIn' = IF firstIn = NoHolder THEN c ELSE firstIn
    /\ UNCHANGED <<fixed, shared, mainvars, taken, fstate, result, out,
                   calls, writes, lateCalls>>

\* line 36: self.found_password = True
SetFound(c) ==
    /\ pc[c] = "l36"
    /\ found_password' = TRUE
    /\ pc' = [pc EXCEPT ![c] = "l37"]
    /\ UNCHANGED <<fixed, correct_password, lock, mainvars, taken, fstate,
                   result, out, calls, writes, lateCalls, firstIn>>

\* Mutation: the assignment of line 37 is missing.
SetPassword_Forgets(c) ==
    /\ pc[c] = "l37"
    /\ pc' = [pc EXCEPT ![c] = "l38"]
    /\ UNCHANGED <<fixed, shared, lock, mainvars, taken, fstate, result, out,
                   histvars>>

\* line 37: self.correct_password = password
SetPassword(c) ==
    /\ pc[c] = "l37"
    /\ correct_password' = c
    /\ writes' = writes + 1
    /\ pc' = [pc EXCEPT ![c] = "l38"]
    /\ UNCHANGED <<fixed, found_password, lock, mainvars, taken, fstate,
                   result, out, calls, lateCalls, firstIn>>

\* Mutation: the success line is printed through self.log(), which takes
\* the lock the worker already holds.
PrintFound_ViaLog(c) ==
    /\ pc[c] = "l38"
    /\ pc' = [pc EXCEPT ![c] = "l21"]
    /\ UNCHANGED <<fixed, shared, lock, mainvars, taken, fstate, result, out,
                   histvars>>

\* line 38: print("[+] Found valid credentials: ...")
PrintFound(c) ==
    /\ pc[c] = "l38"
    /\ out' = Append(out, <<"Found", c>>)
    /\ pc' = [pc EXCEPT ![c] = "l39"]
    /\ UNCHANGED <<fixed, shared, lock, mainvars, taken, fstate, result,
                   histvars>>

\* line 39: return True, leaving the with block releases the lock
ClaimReturn(c) ==
    /\ pc[c] = "l39"
    /\ lock' = NoHolder
    /\ pc' = [pc EXCEPT ![c] = "done"]
    /\ fstate' = [fstate EXCEPT ![c] = "FINISHED"]
    /\ result' = [result EXCEPT ![c] = "True"]
    /\ UNCHANGED <<fixed, shared, mainvars, taken, out, histvars>>

\* Mutation: the success line is printed outside the test of line 35.
ClaimLost_Prints(c) ==
    /\ pc[c] = "l35exit"
    /\ lock' = NoHolder
    /\ out' = Append(out, <<"Found", c>>)
    /\ pc' = [pc EXCEPT ![c] = "done"]
    /\ fstate' = [fstate EXCEPT ![c] = "FINISHED"]
    /\ result' = [result EXCEPT ![c] = "False"]
    /\ UNCHANGED <<fixed, shared, mainvars, taken, histvars>>

\* lines 35, 44: found_password was already set: the with block is left,
\* the lock released, and line 44 returns False
ClaimLost(c) ==
    /\ pc[c] = "l35exit"
    /\ lock' = NoHolder
    /\ pc' = [pc EXCEPT ![c] = "done"]
    /\ fstate' = [fstate EXCEPT ![c] = "FINISHED"]
    /\ result' = [result EXCEPT ![c] = "False"]
    /\ UNCHANGED <<fixed, shared, mainvars, taken, out, histvars>>

(***************************************************************************)
(* log(message), called from line 41 (Attempted) or line 43 (Error)        *)
(***************************************************************************)

\* Mutation: the except branch logs the Attempted line.
Message_Attempted(c) == <<"Attempted", c>>

\* The line try_password passes to log for candidate c.
Message(c) == <<IF oracle[c] = "Fault" THEN "Error" ELSE "Attempted", c>>

\* Mutation: log prints without looking at self.found_password.
LogPrints_Always == TRUE

\* line 22: if not self.found_password
LogPrints == ~found_password

\* lines 21-23: with self.lock: if not self.found_password: print(message).
\* Lines are only printed, and found_password only written, by the holder
\* of the lock.
LogAcquire(c) ==
    /\ pc[c] = "l21"
    /\ CanAcquire
    /\ lock' = c
    /\ out' = IF LogPrints THEN Append(out, Message(c)) ELSE out
    /\ pc' = [pc EXCEPT ![c] = "l23"]
    /\ UNCHANGED <<fixed, shared, mainvars, taken, fstate, result, histvars>>

\* line 23 -> line 44: the with block is left, log returns, return False
LogReturn(c) ==
    /\ pc[c] = "l23"
    /\ lock' = NoHolder
    /\ pc' = [pc EXCEPT ![c] = "done"]
    /\ fstate' = [fstate EXCEPT ![c] = "FINISHED"]
    /\ result' = [result EXCEPT ![c] = "False"]
    /\ UNCHANGED <<fixed, shared, mainvars, taken, out, histvars>>

Worker(c) ==
    \/ Take(c)
    \/ Start(c)
    \/ PreCheck(c)
    \/ Post(c)
    \/ Response(c)
    \/ ClaimAcquire(c)
    \/ SetFound(c)
    \/ SetPassword(c)
    \/ PrintFound(c)
    \/ ClaimReturn(c)
    \/ ClaimLost(c)
    \/ LogAcquire(c)
    \/ LogReturn(c)

Main ==
    \/ Submit
    \/ Observe
    \/ LoopEnd
    \/ CancelOne
    \/ Break
    \/ Shutdown
    \/ Exit

Next ==
    \/ Main
    \/ \E c \in password_list : Worker(c)

Spec == Init /\ [][Next]_vars

\* Some thread that can take a step is eventually scheduled.
FairSpec == Spec /\ WF_vars(Next)

(***************************************************************************)
(* Derived notions used by the properties                                  *)
(***************************************************************************)

\* Candidates for which requests.post answers without "Invalid".
Successes == {c \in password_list : oracle[c] = "Success"}

\* Work items that have executed line 36 (their test of line 35 passed).
Won == {c \in password_list : pc[c] \in {"l37", "l38", "l39"} \/ result[c] = "True"}

\* Work items that held a Success outcome and found line 35 false.
Lost == {c \in password_list :
            \/ pc[c] = "l35exit"
            \/ pc[c] = "done" /\ calls[c] > 0 /\ IsSuccess(c) /\ result[c] = "False"}

\* Positions in out of the line of the given kind for candidate c.
Lines(kind, c) == {i \in 1..Len(out) : out[i] = <<kind, c>>}

\* Positions in out of the lines of the given kind.
LinesOf(kind) == {i \in 1..Len(out) : out[i][1] = kind}

(***************************************************************************)
(* C1                                                                      *)
(***************************************************************************)

\* C1: at most one execution of the claim step (lines 34-39) succeeds; when
\* several workers hold a Success outcome and one of them has lost the claim,
\* exactly one has won it; a worker that returned True is the one whose
\* candidate is in correct_password, and found_password is set.
C1_AtMostOneClaim ==
    /\ Cardinality(Won) <= 1
    /\ (Lost # {} => Cardinality(Won) = 1)
    /\ \A c \in password_list :
          result[c] = "True" => found_password /\ correct_password = c

\* Two workers held a Success outcome: one returned True, the other False.
C1_Witness ==
    \E c, d \in password_list :
        /\ c # d
        /\ result[c] = "True"
        /\ d \in Lost
        /\ pc[d] = "done"

(***************************************************************************)
(* C2                                                                      *)
(***************************************************************************)

\* C2: when exactly one candidate yields Success, run() eventually
\* terminates with found_password true and correct_password that candidate.
C2_UniqueSuccessFound ==
    (Cardinality(Successes) = 1) =>
        <>(mainpc = "done" /\ found_password /\ Successes = {correct_password})

\* run() has returned in a run with exactly one succeeding candidate.
C2_Witness ==
    /\ Cardinality(Successes) = 1
    /\ mainpc = "done"
    /\ found_password
    /\ correct_password \in Successes

(***************************************************************************)
(* C3                                                                      *)
(***************************************************************************)

\* C3: when no candidate yields Success, run() eventually terminates with
\* found_password false and correct_password None, and requests.post has
\* been invoked exactly once for every candidate.
C3_Exhausted ==
    (Successes = {}) =>
        <>(/\ mainpc = "done"
           /\ ~found_password
           /\ correct_password = NoPassword
           /\ \A c \in password_list : calls[c] = 1)

\* run() has returned Exhausted although one request had raised.
C3_Witness ==
    /\ Successes = {}
    /\ \E c \in password_list : oracle[c] = "Fault"
    /\ \E c \in password_list : oracle[c] = "Rejected"
    /\ mainpc = "done"
    /\ \A c \in password_list : calls[c] = 1

(***************************************************************************)
(* C4                                                                      *)
(***************************************************************************)

\* C4, steps: found_password never goes back to false, correct_password is
\* written at most once and never changes afterwards, and each of the two
\* writes is made by the holder of the lock, which keeps the lock.
C4_Step ==
    /\ found_password => found_password'
    /\ writes' <= 1
    /\ correct_password # NoPassword => correct_password' = correct_password
    /\ (found_password' # found_password \/ correct_password' # correct_password)
          => /\ lock # NoHolder
             /\ lock' = lock
             /\ pc'[lock] # pc[lock]

\* C4, states: between the write of found_password and the write of
\* correct_password the lock is held throughout by the writer.
C4_OneSection ==
    (found_password /\ correct_password = NoPassword)
        => lock # NoHolder /\ pc[lock] = "l37"

\* C4: once true, found_password stays true; correct_password is written at
\* most once; both writes happen in one critical section of the lock.
C4_ClaimIsAtomic == [][C4_Step]_vars /\ []C4_OneSection

\* A claim has been made and released while another Success holder lost.
C4_Witness ==
    /\ found_password
    /\ writes = 1
    /\ lock = NoHolder
    /\ Lost # {}

(***************************************************************************)
(* C5                                                                      *)
(***************************************************************************)

\* C5: with at least one succeeding candidate the run does not end
\* Exhausted: it ends with found_password true; correct_password is always
\* a candidate that yielded Success, namely that of the first worker to
\* enter the claim critical section.
C5_ValidWinner ==
    /\ (mainpc = "done" /\ Successes # {})
          => found_password /\ correct_password \in Successes
    /\ correct_password # NoPassword
          => correct_password \in Successes /\ correct_password = firstIn

\* The run ended with a winner that is not the first succeeding candidate
\* of password_list: the winner depends on the interleaving.
C5_Witness ==
    /\ mainpc = "done"
    /\ Cardinality(Successes) >= 2
    /\ \E c \in Successes : c < correct_password

(***************************************************************************)
(* C6                                                                      *)
(***************************************************************************)

\* C6: the number of requests.post invocations in flight at the same time
\* never exceeds the pool's worker count.
C6_BoundedInFlight == Cardinality(InFlight) <= max_workers

\* Every pool thread has a request in flight while a candidate waits.
C6_Witness ==
    /\ Cardinality(InFlight) = max_workers
    /\ \E c \in password_list : pc[c] = "queued"

(***************************************************************************)
(* C7                                                                      *)
(***************************************************************************)

\* Candidates whose request raises.
Faults == {c \in password_list : oracle[c] = "Fault"}

\* C7, steps: no step of a worker whose request raised changes
\* found_password or correct_password.
C7_Step ==
    \A c \in Faults : pc'[c] # pc[c] => UNCHANGED shared

\* C7, states: a faulting candidate is requested at most once, never wins,
\* gets at most one Error line, and exactly one if no winner has been
\* claimed; the run still ends Found or Exhausted as without the fault, and
\* until run() has returned some thread can take a step.
C7_State ==
    /\ \A c \in Faults :
          /\ calls[c] <= 1
          /\ result[c] # "True"
          /\ correct_password # c
          /\ Cardinality(Lines("Error", c)) <= 1
          /\ (pc[c] = "done" /\ calls[c] = 1 /\ ~found_password)
                => Cardinality(Lines("Error", c)) = 1
    /\ (mainpc = "done" /\ Successes # {})
          => found_password /\ correct_password \in Successes
    /\ (mainpc = "done" /\ Successes = {})
          => ~found_password /\ \A c \in password_list : calls[c] = 1
    /\ (Faults # {} /\ mainpc # "done") => ENABLED Next

\* C7: a request that raises is caught in its worker: the shared outcome is
\* untouched, the candidate is not retried, one Error line is printed for it
\* unless a winner was claimed, and the run is neither ended nor blocked:
\* some thread can always take a step until run() returns, and it returns
\* Found or Exhausted as the other candidates require.
C7_FaultIsContained == [][C7_Step]_vars /\ []C7_State

\* run() has returned; an Error line was printed and another worker printed
\* its Attempted line after it.
C7_Witness ==
    /\ mainpc = "done"
    /\ \E i, j \in 1..Len(out) :
          /\ i < j
          /\ out[i][1] = "Error"
          /\ out[j][1] = "Attempted"

(***************************************************************************)
(* C8                                                                      *)
(***************************************************************************)

\* C8: the success line is printed at most once, names the winner, is
\* printed before the claimer releases the lock (exactly once from then on),
\* no Attempted line is ever printed for the winner, and without a claim no
\* success line is printed.
C8_SuccessLineOnce ==
    /\ Cardinality(LinesOf("Found")) <= 1
    /\ \A i \in LinesOf("Found") :
          found_password /\ out[i][2] = correct_password
    /\ (found_password /\ LinesOf("Found") = {})
          => lock # NoHolder /\ pc[lock] \in {"l37", "l38"}
    /\ (\E c \in password_list : pc[c] = "l39" \/ result[c] = "True")
          => Cardinality(LinesOf("Found")) = 1
    /\ \A c \in password_list :
          (c = correct_password \/ c \in Won) => Lines("Attempted", c) = {}

\* run() has returned after a claim, an Attempted line and a lost claim.
C8_Witness ==
    /\ mainpc = "done"
    /\ Cardinality(LinesOf("Found")) = 1
    /\ LinesOf("Attempted") # {}
    /\ Lost # {}

(***************************************************************************)
(* C9                                                                      *)
(***************************************************************************)

\* C9: no Attempted line and no Error line is printed after the success
\* line: the success line, once printed, is the last line of the output.
C9_NothingAfterSuccess ==
    \A i \in LinesOf("Found") : i = Len(out)

\* A worker has been through log after the success line and printed nothing.
C9_Witness ==
    \E c \in password_list :
        /\ pc[c] = "l23"
        /\ LinesOf("Found") # {}
        /\ Lines("Attempted", c) = {}
        /\ Lines("Error", c) = {}

(***************************************************************************)
(* C10                                                                     *)
(***************************************************************************)

\* Positions of a work item that has not passed the pre-check of line 26.
BeforePreCheck == {"none", "queued", "taken", "l26"}

\* C10, steps: once found_password is set, no work item passes the
\* pre-check any more, and a request begins only at line 31.
C10_Step ==
    \A c \in password_list :
        /\ (found_password /\ pc[c] \in BeforePreCheck) => pc'[c] # "l31"
        /\ calls'[c] # calls[c] => pc[c] = "l31"

\* C10, states: at most max_workers - 1 requests have begun since
\* found_password was set, and a work item that has not passed the
\* pre-check has never been requested.
C10_State ==
    /\ Cardinality(lateCalls) <= max_workers - 1
    /\ \A c \in password_list : pc[c] \in BeforePreCheck => calls[c] = 0

\* C10: at most max_workers - 1 requests begin after found_password is set,
\* all of them by workers that had passed the pre-check of line 26 by then;
\* a candidate that had not passed the pre-check is never requested.
C10_BoundedLateCalls == [][C10_Step]_vars /\ []C10_State

\* max_workers - 1 requests began after the claim, and a later candidate
\* went through try_password without a request.
C10_Witness ==
    /\ Cardinality(lateCalls) = max_workers - 1
    /\ \E c \in password_list :
          /\ pc[c] = "done"
          /\ calls[c] = 0
          /\ \E d \in lateCalls : d < c

(***************************************************************************)
(* machanger.py                                                            *)
(* MAC addresses are abstract names; "BB" is "bb" written in upper case    *)
(* and "zz" is a string that is not a MAC address.  One interface, eth0,   *)
(* exists.  An invocation of main() is one step: the program is            *)
(* sequential.                                                             *)
(***************************************************************************)

\* Number of invocations of main() considered.
MaxOps == 3

\* An option that was not given on the command line (None in args).
NoArg == "noarg"

\* str.lower() on the strings of the model.
Lower(mac) == IF mac = "BB" THEN "bb" ELSE mac

\* lines 91-93: is_valid_mac
is_valid_mac(mac) == mac \in {"aa", "bb", "cc", "BB"}

\* lines 246-249: generate_random_mac returns a lower-case address
RandomMacs == {"bb", "cc"}

\* lines 251-261: generate_vendor_mac; None for a malformed OUI
generate_vendor_mac(oui, gen) == IF oui = "badoui" THEN NoArg ELSE gen

\* What the environment does during one invocation: which ifconfig command
\* raises CalledProcessError, whether writing the save file raises OSError,
\* and the address the random generator produces.
Envs == [failAt : {"none", "down", "hw", "up"},
         saveFails : BOOLEAN,
         gen : RandomMacs]

\* argparse defaults (lines 74-87).
NoArgs == [interface |-> NoArg, list_interfaces |-> FALSE, show_mac |-> FALSE,
           restore |-> FALSE, new_mac |-> NoArg, random |-> FALSE,
           vendor |-> NoArg, restore_all |-> FALSE, history |-> FALSE,
           dry_run |-> FALSE, export_profile |-> FALSE,
           import_profile |-> FALSE, force_overwrite |-> FALSE]

Eth0 == [NoArgs EXCEPT !.interface = "eth0"]

\* The command lines considered: those of the epilog (lines 59-71) and
\* their variations.
CommandLines ==
    {[Eth0 EXCEPT !.new_mac = m, !.force_overwrite = f] :
        m \in {"bb", "BB", "cc", "aa", "zz"}, f \in BOOLEAN}
    \cup {[Eth0 EXCEPT !.new_mac = m, !.dry_run = TRUE] : m \in {"bb", "cc"}}
    \cup {[Eth0 EXCEPT !.restore = TRUE],
          [NoArgs EXCEPT !.list_interfaces = TRUE],
          [Eth0 EXCEPT !.show_mac = TRUE],
          [NoArgs EXCEPT !.show_mac = TRUE],
          [Eth0 EXCEPT !.random = TRUE],
          [Eth0 EXCEPT !.vendor = "oui"],
          [Eth0 EXCEPT !.vendor = "badoui"],
          [NoArgs EXCEPT !.restore_all = TRUE],
          [Eth0 EXCEPT !.restore_all = TRUE],
          [Eth0 EXCEPT !.history = TRUE],
          [Eth0 EXCEPT !.dry_run = TRUE],
          [Eth0 EXCEPT !.dry_run = TRUE, !.random = TRUE],
          [Eth0 EXCEPT !.dry_run = TRUE, !.vendor = "oui"],
          [Eth0 EXCEPT !.dry_run = TRUE, !.import_profile = TRUE],
          [Eth0 EXCEPT !.export_profile = TRUE],
          [Eth0 EXCEPT !.import_profile = TRUE],
          [NoArgs EXCEPT !.interface = "wlan9", !.new_mac = "bb"],
          NoArgs, Eth0}

\* The state an invocation works on: the interface, the files, and the
\* record of what the invocation has done so far.
Machine ==
    [mac |-> iface_mac, save |-> savefile, hist |-> history, log |-> logfile,
     prof |-> profile, called |-> {}, hw |-> FALSE]

\* lines 38-45: log_action
log_action(st, message) == [st EXCEPT !.log = Append(@, message)]

\* lines 132-143: save_original_mac
save_original_mac(st, mac, force_overwrite, env) ==
    IF st.save # NoFile /\ ~force_overwrite
    THEN st
    ELSE IF env.saveFails
         THEN st
         ELSE log_action([st EXCEPT !.save = mac], <<"Saved", mac>>)

\* lines 186-192 and 219-225: ifconfig down, hw ether, up; the interface
\* then reports the address in lower case
ifconfig_hw_ether(st, mac, env) ==
    IF env.failAt = "down"
    THEN st
    ELSE IF env.failAt = "hw"
         THEN [st EXCEPT !.hw = TRUE]
         ELSE [st EXCEPT !.hw = TRUE, !.mac = Lower(mac)]

\* lines 169-208: change_mac
change_mac(st, new_mac, force_overwrite, env) ==
    LET old_mac == st.mac
        s0 == [st EXCEPT !.called = @ \cup {"change_mac"}]
        s1 == save_original_mac(s0, old_mac, force_overwrite, env)
        s2 == ifconfig_hw_ether(s1, new_mac, env)
    IN  IF ~is_valid_mac(new_mac)
        THEN s1
        ELSE IF Lower(old_mac) = Lower(new_mac)
             THEN s1
             ELSE IF env.failAt = "none"
                  THEN log_action(s2, <<"Changed", old_mac, new_mac>>)
                  ELSE s2

\* lines 210-237: restore_mac (load_original_mac is lines 145-155)
restore_mac(st, env) ==
    LET orig_mac == st.save
        s0 == [st EXCEPT !.called = @ \cup {"restore_mac"}]
        s2 == ifconfig_hw_ether(s0, orig_mac, env)
    IN  IF orig_mac = NoFile
        THEN s0
        ELSE IF env.failAt = "none"
             THEN log_action(s2, <<"Restored", orig_mac>>)
             ELSE s2

\* lines 265-282: log_mac_history (no function of machanger.py calls it)
log_mac_history(st, old_mac, new_mac) ==
    [st EXCEPT !.hist = Append(@, <<old_mac, new_mac>>)]

\* lines 284-295: show_mac_history prints the entries, changes nothing
show_mac_history(st) == [st EXCEPT !.called = @ \cup {"show_mac_history"}]

\* lines 298-307: restore_all_interfaces, one restore_mac per save file
restore_all_interfaces(st, env) ==
    IF st.save # NoFile THEN restore_mac(st, env) ELSE st

\* lines 310-312: dry_run_change_mac only prints
dry_run_change_mac(st, new_mac) ==
    [st EXCEPT !.called = @ \cup {"dry_run_change_mac"}]

\* lines 316-323: export_profile
export_profile(st) == [st EXCEPT !.prof = st.mac]

\* lines 325-336: import_profile
import_profile(st, dry_run, env) ==
    IF st.prof = NoFile
    THEN st
    ELSE IF dry_run
         THEN dry_run_change_mac(st, st.prof)
         ELSE change_mac(st, st.prof, FALSE, env)

\* lines 415-430: the branch of main for --dry-run
main_dry_run(st, args, env) ==
    IF args.new_mac # NoArg
    THEN dry_run_change_mac(st, args.new_mac)
    ELSE IF args.random
         THEN dry_run_change_mac(st, env.gen)
         ELSE IF args.vendor # NoArg
              THEN IF generate_vendor_mac(args.vendor, env.gen) # NoArg
                   THEN dry_run_change_mac(st, generate_vendor_mac(args.vendor, env.gen))
                   ELSE st
              ELSE IF args.import_profile
                   THEN import_profile(st, TRUE, env)
                   ELSE st

\* lines 398-436: the if/elif chain of main, in the order of the source
main_dispatch(st, args, env) ==
    IF args.restore
    THEN restore_mac(st, env)
    ELSE IF args.new_mac # NoArg
    THEN change_mac(st, args.new_mac, args.force_overwrite, env)
    ELSE IF args.random
    THEN change_mac(st, env.gen, args.force_overwrite, env)
    ELSE IF args.vendor # NoArg
    THEN IF generate_vendor_mac(args.vendor, env.gen) # NoArg
         THEN change_mac(st, generate_vendor_mac(args.vendor, env.gen),
                         args.force_overwrite, env)
         ELSE st
    ELSE IF args.restore_all
    THEN restore_all_interfaces(st, env)
    ELSE IF args.history
    THEN show_mac_history(st)
    ELSE IF args.dry_run
    THEN main_dry_run(st, args, env)
    ELSE IF args.export_profile
    THEN export_profile(st)
    ELSE IF args.import_profile
    THEN import_profile(st, FALSE, env)
    ELSE st

\* lines 348-396: the early returns of main, then the chain
main_result(st, args, env) ==
    IF args.list_interfaces
    THEN st
    ELSE IF args.show_mac
    THEN st
    ELSE IF args.interface = NoArg
    THEN st
    ELSE IF args.interface # "eth0"
    THEN st
    ELSE main_dispatch(st, args, env)

\* The invocation asks for a MAC change on the interface.
AsksChange(args) ==
    /\ args.interface = "eth0"
    /\ args.new_mac # NoArg \/ args.random \/ args.vendor = "oui"

\* lines 348-436: one invocation of main()
main ==
    /\ ops < MaxOps
    /\ \E args \in CommandLines, env \in Envs :
         LET r == main_result(Machine, args, env) IN
            machine' =
                [iface_mac |-> r.mac,
                 savefile |-> r.save,
                 history |-> r.hist,
                 logfile |-> r.log,
                 profile |-> r.prof,
                 ops |-> ops + 1,
                 last |-> [dry_run |-> args.dry_run,
                           asked |-> AsksChange(args),
                           called |-> r.called,
                           hw |-> r.hw,
                           done |-> r.hw /\ env.failAt = "none",
                           prevMac |-> iface_mac,
                           prevSave |-> savefile,
                           firstOld |-> IF /\ last.firstOld = NoFile
                                           /\ "change_mac" \in r.called
                                        THEN iface_mac
                                        ELSE last.firstOld,
                           forced |-> \/ last.forced
                                      \/ /\ "change_mac" \in r.called
                                         /\ args.force_overwrite]]
    /\ UNCHANGED <<oracle, found_password, correct_password, lock, mainpc,
                   submitted, taken, cancelIdx, yielded, fstate, pc, result,
                   out, calls, writes, lateCalls, firstIn, listvars>>

MacInit == BfIdle /\ MacIdle /\ ListIdle

MacNext == main

MacSpec == MacInit /\ [][MacNext]_vars

(***************************************************************************)
(* C11                                                                     *)
(***************************************************************************)

\* C11: an invocation with --dry-run, -i and one of --mac, --random,
\* --vendor only simulates: it does not call change_mac, issues no
\* "ifconfig ... hw ether" command, and leaves the MAC address of the
\* interface and the save file as they were.
C11_DryRunOnlySimulates ==
    (last.dry_run /\ last.asked) =>
        /\ "change_mac" \notin last.called
        /\ ~last.hw
        /\ iface_mac = last.prevMac
        /\ savefile = last.prevSave

(***************************************************************************)
(* C12                                                                     *)
(***************************************************************************)

\* C12: after change_mac or restore_mac has changed the MAC address of the
\* interface from A to B, the history holds an entry with old_mac A and
\* new_mac B (which --history then lists).
C12_ChangesAreInHistory ==
    (/\ last.called \cap {"change_mac", "restore_mac"} # {}
     /\ last.done
     /\ iface_mac # last.prevMac)
        => \E i \in 1..Len(history) : history[i] = <<last.prevMac, iface_mac>>

(***************************************************************************)
(* C17                                                                     *)
(***************************************************************************)

\* C17: after any sequence of change_mac calls without force_overwrite,
\* starting with no save file, the save file holds the MAC address the
\* interface had before the first call, and a successful restore_mac sets
\* the interface back to that address.
C17_OriginalPreserved ==
    (last.firstOld # NoFile /\ ~last.forced) =>
        /\ savefile = last.firstOld
        /\ ("restore_mac" \in last.called /\ last.done)
              => iface_mac = last.firstOld

(***************************************************************************)
(* C13                                                                     *)
(***************************************************************************)

\* The scheduler has observed a completion while found_password was true.
Observed == mainpc = "cancel" \/ cancelIdx > 1

\* Positions of a work item that has not begun try_password.
NotStarted == {"none", "queued", "taken"}

\* C13 as stated: from the observation on, no work item that had not yet
\* started begins executing try_password.
C13_NoStartAfterObserve ==
    [][\A c \in password_list :
          (Observed /\ pc[c] \in NotStarted) => pc'[c] # "l26"]_vars

\* C13 amended, steps: after the observation the scheduler observes no
\* further completion; a work item on whose future cancel() has been called
\* before it started never starts; a work item that has not passed the
\* pre-check never passes it; a request in flight stays in flight until
\* requests.post returns, and its future stays RUNNING.
C13_Step ==
    /\ Observed => yielded' = yielded
    /\ \A c \in password_list :
          /\ (Observed /\ cancelIdx > c /\ pc[c] \in NotStarted)
                => pc'[c] # "l26"
          /\ (Observed /\ pc[c] \in BeforePreCheck) => pc'[c] # "l31"
          /\ pc[c] = "inflight"
                => pc'[c] \in {"inflight", "l34", "l21"} /\ fstate'[c] = "RUNNING"

\* C13 amended, states: the observation implies found_password; once the
\* cancel loop is over every future is cancelled, running or finished.
C13_State ==
    /\ Observed => found_password
    /\ (Observed /\ cancelIdx > NumCandidates)
          => \A c \in password_list : fstate[c] # "PENDING"

\* C13 amended: once the scheduler observes a completion while
\* found_password is true it stops observing and calls cancel() on the
\* futures one by one; a work item not yet started never starts once its own
\* cancel() has been called, and one that starts before that returns at the
\* pre-check without a request; requests in flight run to completion.
C13_CancelledNeverStart == [][C13_Step]_vars /\ []C13_State

\* run() has returned: a cancelled work item was dropped and a request that
\* began after the claim ran to completion.
C13_Witness ==
    /\ mainpc = "done"
    /\ \E c \in password_list : pc[c] = "dropped"
    /\ \E d \in lateCalls : pc[d] = "done"

(***************************************************************************)
(* C14                                                                     *)
(***************************************************************************)

\* A work item is over: try_password has returned or the item was dropped.
Over == {"done", "dropped"}

\* C14, steps: while found_password is true, a candidate that is not yet
\* submitted, queued, or at the pre-check can only stay before the
\* pre-check, be dropped, or return; no request is made and no line printed
\* for it; a work item that is over stays as it is.
C14_Step ==
    \A c \in password_list :
        /\ (found_password /\ pc[c] \in BeforePreCheck)
              => /\ pc'[c] \in BeforePreCheck \cup Over
                 /\ calls'[c] = 0
                 /\ \A i \in 1..Len(out') : out'[i][2] # c
        /\ pc[c] \in Over
              => /\ pc'[c] = pc[c]
                 /\ calls'[c] = calls[c]
                 /\ result'[c] = result[c]

\* C14, states: a candidate before the pre-check, or over without a
\* request, has no line, and if try_password returned it returned False.
C14_State ==
    \A c \in password_list :
        (pc[c] \in BeforePreCheck \/ (pc[c] \in Over /\ calls[c] = 0))
            => /\ calls[c] = 0
               /\ \A i \in 1..Len(out) : out[i][2] # c
               /\ result[c] # "True"
               /\ pc[c] = "done" => result[c] = "False"

\* C14: if found_password is true when a candidate is submitted or when a
\* worker begins try_password for it, requests.post is never invoked for
\* it, no line is printed for it, and try_password returns False.
C14_SkippedWhenFound == [][C14_Step]_vars /\ []C14_State

\* A candidate was skipped at the pre-check while run() is still
\* submitting: the next candidate is submitted with found_password true.
C14_Witness ==
    /\ mainpc = "submit"
    /\ found_password
    /\ \E c \in password_list :
          pc[c] = "done" /\ calls[c] = 0 /\ result[c] = "False"

(***************************************************************************)
(* C15                                                                     *)
(***************************************************************************)

\* C15, steps: the steps in which a worker loses the claim (it finds line 35
\* false, then leaves the with block and returns) change neither
\* found_password nor correct_password, print nothing and do not touch
\* run(); the worker does not return True.
C15_Step ==
    \A c \in password_list :
        (pc'[c] # pc[c] /\ (pc[c] = "l35exit" \/ pc'[c] = "l35exit"))
            => /\ UNCHANGED <<shared, out, mainvars>>
               /\ result'[c] # "True"

\* C15, states: a worker that lost the claim has no line in the output, is
\* not the winner, returned False if it returned, and its future finished
\* normally; some thread can still take a step until run() has returned.
C15_State ==
    /\ \A c \in Lost :
          /\ found_password
          /\ correct_password # c
          /\ \A i \in 1..Len(out) : out[i][2] # c
          /\ pc[c] = "done" => result[c] = "False" /\ fstate[c] = "FINISHED"
    /\ (Lost # {} /\ mainpc # "done") => ENABLED Next

\* C15: a Success outcome that arrives after another worker has claimed is
\* dropped silently: no state change, no line, return False, no abort.
C15_ClaimLostIsSilent == [][C15_Step]_vars /\ []C15_State

\* run() has returned after a lost claim; the success line is the only line.
C15_Witness ==
    /\ mainpc = "done"
    /\ Len(out) = 1
    /\ \E c \in Lost : pc[c] = "done"

(***************************************************************************)
(* C16                                                                     *)
(***************************************************************************)

\* The step is the pre-check of line 26 by the worker of c.
ReadsAtPreCheck(c) == pc[c] = "l26" /\ pc'[c] # "l26"

\* The step is the scheduler's read of found_password at line 51.
SchedulerReads == yielded' # yielded

\* The step is the read of found_password at line 35 or at line 22.
ReadsInWith(c) == pc[c] \in {"l34", "l21"} /\ pc'[c] # pc[c]

\* The step is the write of line 36 or of line 37.
WritesOutcome(c) == pc[c] \in {"l36", "l37"} /\ pc'[c] # pc[c]

\* The worker of c holds the lock during the step (it may acquire it in it).
HoldsDuring(c) == lock = c \/ (lock = NoHolder /\ lock' = c)

\* C16 as stated: every read and every write of found_password and
\* correct_password, by a worker or by the scheduler, is made by a thread
\* that holds the lock (the scheduler never holds it).
C16_AllAccessUnderLock ==
    [][/\ \A c \in password_list :
             (ReadsAtPreCheck(c) \/ ReadsInWith(c) \/ WritesOutcome(c))
                => HoldsDuring(c)
       /\ ~SchedulerReads]_vars

\* C16 amended: every write of found_password and correct_password, and the
\* reads of lines 22 and 35, are made by the holder of the lock; the
\* pre-check of line 26 is made by a worker that does not hold the lock
\* (as is the scheduler's read of line 51, the scheduler never acquiring it).
C16_WritesUnderLock ==
    /\ [][\A c \in password_list :
             /\ (ReadsInWith(c) \/ WritesOutcome(c)) => HoldsDuring(c)
             /\ ReadsAtPreCheck(c) => lock # c /\ lock' # c]_vars
    /\ [](\A c \in password_list : lock = c => pc[c] \in ActivePcs)

\* A worker is at the pre-check while another is between the two writes of
\* the claim, holding the lock.
C16_Witness ==
    \E c, d \in password_list :
        /\ pc[c] = "l37"
        /\ lock = c
        /\ pc[d] = "l26"

(***************************************************************************)
(* C18: run() called again on the same BruteForcer object                  *)
(***************************************************************************)

\* bruteforcer.run() is called again after it has returned.  Everything
\* local to run() (the executor, the futures, the threads' positions) is
\* new, and the observations of the previous run are forgotten; the fields
\* set by __init__ (found_password, correct_password, lock) are the
\* object's and run() assigns none of them (lines 46-48).
Rerun ==
    /\ mainpc = "done"
    /\ mainpc' = "submit"
    /\ submitted' = 0
    /\ taken' = 0
    /\ cancelIdx' = 1
    /\ yielded' = 0
    /\ fstate' = [c \in password_list |-> "NONE"]
    /\ pc' = [c \in password_list |-> "none"]
    /\ result' = [c \in password_list |-> "none"]
    /\ out' = <<>>
    /\ calls' = [c \in password_list |-> 0]
    /\ writes' = 0
    /\ lateCalls' = {}
    /\ firstIn' = NoHolder
    /\ UNCHANGED <<oracle, shared, lock, macvars, listvars>>

RerunNext == Next \/ Rerun

RerunSpec == Init /\ [][RerunNext]_vars

\* C18: at the start of every call to run(), a second call on the same
\* object included, found_password is false and correct_password is empty;
\* a run that starts this way offers its candidates to the Oracle, so a run
\* that has returned with no request made had no candidate to offer.
C18_FreshOutcomePerRun ==
    /\ (mainpc = "submit" /\ submitted = 0)
          => ~found_password /\ correct_password = NoPassword
    /\ mainpc = "done" => \E c \in password_list : calls[c] > 0

(***************************************************************************)
(* C19: the candidate source (bruteforce.py, lines 10-11)                  *)
(*                                                                         *)
(* A candidate is the sequence of its characters; a digit character is     *)
(* written as the number it denotes.  The comprehension of line 11 is      *)
(* unrolled one entry per step.  range(1000) is kept whole; the alphabet   *)
(* is cut to its first NumLetters letters.                                 *)
(***************************************************************************)

NumPrefixes == 1000
NumLetters == 2

\* string.ascii_uppercase
ascii_uppercase ==
    <<"A", "B", "C", "D", "E", "F", "G", "H", "I", "J", "K", "L", "M",
      "N", "O", "P", "Q", "R", "S", "T", "U", "V", "W", "X", "Y", "Z">>

\* The decimal digits of n, most significant first, as str(n) gives them.
RECURSIVE Digits(_)
Digits(n) == IF n < 10 THEN <<n>> ELSE Append(Digits(n \div 10), n % 10)

\* s filled with zeros on the left up to width w; s itself if it is wider.
RECURSIVE Pad(_, _)
Pad(s, w) == IF Len(s) >= w THEN s ELSE Pad(<<0>> \o s, w)

\* Mutation: the format spec is dropped, f"{num}{char}".
Format03_Unpadded(n) == Digits(n)

\* The replacement field {num:03}.
Format03(n) == Pad(Digits(n), 3)

\* f"{num:03}{char}" for char the l-th letter of the alphabet.
Entry(n, l) == Append(Format03(n), ascii_uppercase[l])

\* One iteration of the comprehension: product() varies char fastest.
Generate ==
    /\ num < NumPrefixes
    /\ listing' = [plist |-> Append(plist, Entry(num, chr)),
                   num |-> IF chr < NumLetters THEN num ELSE num + 1,
                   chr |-> IF chr < NumLetters THEN chr + 1 ELSE 1]
    /\ UNCHANGED <<oracle, found_password, correct_password, lock, mainpc,
                   submitted, taken, cancelIdx, yielded, fstate, pc, result,
                   out, calls, writes, lateCalls, firstIn, macvars>>

ListInit == BfIdle /\ MacIdle /\ ListIdle

ListNext == Generate

ListSpec == ListInit /\ [][ListNext]_vars

\* The i-th entry is a candidate of 4 characters: three decimal digits whose
\* value is the prefix of the i-th pair in prefix-major order, then that
\* pair's letter.
IsEntryOfPair(i) ==
    LET e == plist[i]
        n == (i - 1) \div NumLetters
        l == ((i - 1) % NumLetters) + 1
    IN  /\ Len(e) = 4
        /\ \A k \in 1..3 : e[k] \in 0..9
        /\ e[1] * 100 + e[2] * 10 + e[3] = n
        /\ e[4] = ascii_uppercase[l]

AcquirePcs == {"l34", "l21"}

\* Positions inside a with self.lock block.
HolderPcs == {"l36", "l37", "l38", "l39", "l35exit", "l23"}

Waiting == {c \in password_list : pc[c] \in AcquirePcs}

\* The number of statements a work item still has to execute from a
\* position, at most.
StepsLeft ==
    [none |-> 13, queued |-> 12, taken |-> 11, l26 |-> 10, l31 |-> 9,
     inflight |-> 8, l34 |-> 7, l36 |-> 6, l37 |-> 5, l38 |-> 4, l39 |-> 3,
     l21 |-> 2, l35exit |-> 1, l23 |-> 1, done |-> 0, dropped |-> 0]

\* The number of steps run() itself still has to take, at most.
MainStepsLeft ==
    [submit |-> 5, as_completed |-> 4, cancel |-> 3, shutdown |-> 2,
     exit |-> 1, done |-> 0][mainpc]
        + (NumCandidates - submitted) + (NumCandidates - yielded)
        + (NumCandidates + 1 - cancelIdx)

RECURSIVE SumStepsLeft(_)
SumStepsLeft(n) == IF n = 0 THEN 0 ELSE StepsLeft[pc[n]] + SumStepsLeft(n - 1)

\* A bound on the number of steps the program can still take.
Rank == MainStepsLeft + SumStepsLeft(NumCandidates)

\* C20, states: the holder of the lock is inside a with block, never at an
\* acquisition; a worker inside a
\* with block is the holder; while the lock is held or waited for some
\* thread can take a step; when run() has returned the lock is free and
\* nobody waits for it.
C20_State ==
    /\ \A c \in password_list :
          /\ lock = c => pc[c] \in HolderPcs
          /\ pc[c] \in HolderPcs => lock = c
    /\ (lock # NoHolder \/ Waiting # {}) => ENABLED Next
    /\ mainpc = "done" => lock = NoHolder /\ Waiting = {}
    /\ Rank >= 0

\* C20, steps: a waiting worker leaves its position only by obtaining the
\* lock; the lock is given up only by its holder leaving the with block;
\* every step brings the end of the program nearer.
C20_Step ==
    /\ \A c \in password_list :
          /\ (pc[c] \in AcquirePcs /\ pc'[c] # pc[c])
                => lock = NoHolder /\ lock' = c
          /\ (lock = c /\ lock' # c)
                => lock' = NoHolder /\ pc'[c] = "done"
    /\ Rank' < Rank

ReadsUnlocked == SchedulerReads \/ \E c \in password_list : ReadsAtPreCheck(c)

\* The step is a read of found_password made inside a with self.lock block.
ReadsLocked == \E c \in password_list : ReadsInWith(c)

\* C21 as stated: whenever a thread reads found_password as true, the
\* unlocked reads of lines 26 and 51 included, correct_password is already
\* the winning candidate; and correct_password is non-empty only if
\* found_password is true.
C21_ConsistentWhenRead ==
    /\ [][((ReadsUnlocked \/ ReadsLocked) /\ found_password)
             => correct_password # NoPassword /\ correct_password = firstIn]_vars
    /\ [](correct_password # NoPassword => found_password)

\* C21 amended, steps: a read of found_password made under the lock that
\* gives true finds correct_password set to the winning candidate; an
\* unlocked read that gives true while correct_password is still empty is
\* made while the claiming worker holds the lock between lines 36 and 37.
C21_Step ==
    /\ (ReadsLocked /\ found_password)
          => correct_password # NoPassword /\ correct_password = firstIn
    /\ (ReadsUnlocked /\ found_password /\ correct_password = NoPassword)
          => lock # NoHolder /\ pc[lock] = "l37" /\ lock = firstIn

\* C21 amended, states: correct_password is non-empty only if
\* found_password is true, and it is then the winning candidate; whenever
\* the lock is free the two fields agree.
C21_State ==
    /\ correct_password # NoPassword
          => found_password /\ correct_password = firstIn
    /\ lock = NoHolder
          => (found_password <=> correct_password # NoPassword)

\* C21 amended: found_password and correct_password are consistent in every
\* state observed under the lock, and correct_password is non-empty only if
\* found_password is true; the unlocked reads of lines 26 and 51 can give
\* true while correct_password is still empty, between lines 36 and 37 of
\* the claiming worker.
C21_ConsistentUnderLock == [][C21_Step]_vars /\ []C21_State

\* The scheduler is about to read found_password at line 51 as true while
\* the claiming worker has not yet executed line 37.
C21_Witness ==
    /\ mainpc = "as_completed"
    /\ yielded < Cardinality(Finished)
    /\ found_password
    /\ correct_password = NoPassword

(***************************************************************************)
(* C22                                                                     *)
(***************************************************************************)

\* C22: when run() has returned, every work item is over (try_password has
\* returned for it or it was dropped unstarted), so no request is in
\* flight, the lock is free, and no thread can take a step any more: no
\* further line is printed and found_password and correct_password keep
\* their values.
C22_ReturnsAfterWorkers ==
    mainpc = "done"
        => /\ \A c \in password_list : pc[c] \in Over
           /\ InFlight = {}
           /\ lock = NoHolder
           /\ ~ENABLED Next

\* executor.shutdown(wait=False) has returned and run() is at the end of
\* the with block while a request is still in flight.
C22_Witness ==
    /\ mainpc = "exit"
    /\ InFlight # {}

====
